---------------------------- MODULE Spec2Model ----------------------------
(***************************************************************************)
(* A model of github-reindex.py: the rate-limit gate (await_rate_limit),   *)
(* the fetcher (fetch), the fork enumerator (get_forks), the recursive     *)
(* traversal (get_forks_recursive), the URL parser (parse_url) and the     *)
(* config emitter (build_config).                                          *)
(*                                                                         *)
(* The program is single threaded.  pc is the position of the one thread   *)
(* of control; the generators of the source are run in the order in which  *)
(* their consumer pulls them, so a record that get_forks yields is handed  *)
(* to its consumer in the same step.  One step of the model is one HTTP    *)
(* request together with the code that runs up to the next request.        *)
(*                                                                         *)
(* A string is a sequence of atoms: ":" and "/" are single characters, any *)
(* other atom is a run of characters that holds neither.                   *)
(***************************************************************************)
EXTENDS Integers, Sequences, FiniteSets, TLC

VARIABLES
    top,        \* the function the run entered through
    pc,         \* position of the thread of control
    world,      \* what the remote API holds: fork counts, stars, fork listings
    urls,       \* args.urls
    recursive,  \* args.recursive
    urlIdx,     \* index of the url the loop of build_config is at
    forks,      \* the records the outermost consumer has collected, in order
    config,     \* livegrep.json: not written, or the repos list written
    warnings,   \* number of "skipping unknown host" lines on stderr
    parsed,     \* what the last parse_url call did
    queue,      \* get_forks_recursive: the work stack
    fetched,    \* get_forks_recursive: the fetched set
    yielded,    \* get_forks_recursive: the yielded set
    gfKey,      \* get_forks: the (user, repo) it enumerates
    page,       \* get_forks: the page counter of itertools.count()
    fetchUrl,   \* fetch: the url requested
    fetchI,     \* fetch: the loop index i of range(3)
    gets,       \* fetch: GET requests issued for fetchUrl by the current call
    resp,       \* the response r last received by fetch
    awaitRet,   \* await_rate_limit: the call site to return to
    gate,       \* what the last step's await_rate_limit call did
    error,      \* the exception that ended the run, if any
    runs,       \* history: get_forks calls per key in the current traversal
    enumLog,    \* history: keys produced by get_forks in the current traversal
    non200,     \* history: some request of the run was answered with no 200
    reqLog,     \* history: urls fetch was called with in the current get_forks
    quotaCalls  \* history: GETs of /rate_limit issued in the current get_forks

vars == << top, pc, world, urls, recursive, urlIdx, forks, config, warnings,
           parsed, queue, fetched, yielded, gfKey, page, fetchUrl, fetchI,
           gets, resp, awaitRet, gate, error, runs, enumLog, non200, reqLog,
           quotaCalls >>

-----------------------------------------------------------------------------
(* Bounds of the model.                                                    *)

\* most atoms in the path part of an input url
MaxPathLen == 4
\* most entries in all fork listings of a world together
MaxEdges == 3
\* entries per page of a fork listing
PageSize == 2
\* largest stargazers_count a record carries
MaxStars == 1
\* most input urls of a build_config run
MaxUrls == 2
\* most records in the list the emitter is handed
MaxRecords == 3

-----------------------------------------------------------------------------
(* Generic helpers on sequences.                                           *)

Range(s) == { s[i] : i \in 1..Len(s) }

SeqsUpTo(S, n) == UNION { [1..k -> S] : k \in 0..n }

Min(a, b) == IF a <= b THEN a ELSE b

RECURSIVE Flatten(_)
Flatten(ss) == IF ss = << >> THEN << >> ELSE Head(ss) \o Flatten(Tail(ss))

-----------------------------------------------------------------------------
(* Strings and parse_url.                                                  *)

Str(w) == << w >>

HttpsPrefix == << "https", ":", "/", "/" >>

\* "://" in url
HasSchemeSep(url) ==
    \E i \in 1..(Len(url) - 2) :
        url[i] = ":" /\ url[i + 1] = "/" /\ url[i + 2] = "/"

\* str.find(":"), 1-based; 0 when there is none
FindColon(url) ==
    IF \E i \in 1..Len(url) : url[i] = ":"
    THEN CHOOSE i \in 1..Len(url) :
             url[i] = ":" /\ \A j \in 1..(i - 1) : url[j] # ":"
    ELSE 0

\* first "/" at or after position from; Len(s) + 1 when there is none
FindSlashFrom(s, from) ==
    IF \E i \in from..Len(s) : s[i] = "/"
    THEN CHOOSE i \in from..Len(s) :
             s[i] = "/" /\ \A j \in from..(i - 1) : s[j] # "/"
    ELSE Len(s) + 1

\* urllib.parse.urlparse, as far as parse_url reads it: netloc and path.
\* A scheme is what precedes the first ":" when that is not empty and holds
\* only scheme characters (no "/"); a netloc follows a leading "//" and ends
\* before the next "/".
UrlParse(url) ==
    LET c    == FindColon(url)
        sch  == c > 1 /\ \A j \in 1..(c - 1) : url[j] # "/"
        rest == IF sch THEN SubSeq(url, c + 1, Len(url)) ELSE url
        net  == Len(rest) >= 2 /\ rest[1] = "/" /\ rest[2] = "/"
        e    == FindSlashFrom(rest, 3)
    IN  IF net
        THEN [ netloc |-> SubSeq(rest, 3, e - 1),
               path   |-> SubSeq(rest, e, Len(rest)) ]
        ELSE [ netloc |-> << >>, path |-> rest ]

\* str.strip("/")
RECURSIVE LStrip(_)
LStrip(s) == IF s # << >> /\ Head(s) = "/" THEN LStrip(Tail(s)) ELSE s

RECURSIVE RStrip(_)
RStrip(s) ==
    IF s # << >> /\ s[Len(s)] = "/" THEN RStrip(SubSeq(s, 1, Len(s) - 1)) ELSE s

Strip(s) == RStrip(LStrip(s))

\* str.split("/"): always at least one part, parts may be empty
RECURSIVE Split(_)
Split(s) ==
    LET e == FindSlashFrom(s, 1)
    IN  IF e > Len(s)
        THEN << s >>
        ELSE << SubSeq(s, 1, e - 1) >> \o Split(SubSeq(s, e + 1, Len(s)))

GithubHost == Str("github.com")

\* line 98 as the bare owner/repo reading has it: github.com is supplied
Normalize_GithubDefault(url) ==
    IF ~HasSchemeSep(url) THEN HttpsPrefix \o GithubHost \o << "/" >> \o url
    ELSE url

\* the url parse_url hands to urlparse
Normalize(url) == IF ~HasSchemeSep(url) THEN HttpsPrefix \o url ELSE url

\* parse_url without the host test of line 100
parse_url_NoHostCheck(url) ==
    LET p     == UrlParse(IF ~HasSchemeSep(url) THEN HttpsPrefix \o url ELSE url)
        parts == Split(Strip(p.path))
    IN  IF Len(parts) < 2
        THEN [ outcome |-> "raise", user |-> << >>, repo |-> << >> ]
        ELSE [ outcome |-> "ok", user |-> parts[1], repo |-> parts[2] ]

\* parse_url(url): outcome "ok" returns (user, repo); "skip" prints the
\* warning and returns (None, None), shown as two empty strings; "raise" is
\* the ValueError of unpacking fewer than two path parts.
parse_url(url) ==
    LET u     == Normalize(url)
        p     == UrlParse(u)
        parts == Split(Strip(p.path))
    IN  IF p.netloc # GithubHost
        THEN [ outcome |-> "skip", user |-> << >>, repo |-> << >> ]
        ELSE IF Len(parts) < 2
        THEN [ outcome |-> "raise", user |-> << >>, repo |-> << >> ]
        ELSE [ outcome |-> "ok", user |-> parts[1], repo |-> parts[2] ]

-----------------------------------------------------------------------------
(* The remote API.                                                         *)

KA == << Str("octocat"), Str("Hello-World") >>
KB == << Str("alice"), Str("Hello-World") >>
KC == << Str("bob"), Str("Hello-World") >>

\* the repositories that exist; a request for any other answers no 200
Keys == { KA, KB, KC }

\* status codes the API answers with
Statuses == { 200, 204, 403, 404 }

\* responses: a status code and whether X-RateLimit-Remaining is "0"
Responses ==
    { [ status |-> 200, limited |-> FALSE ], [ status |-> 200, limited |-> TRUE ],
      [ status |-> 204, limited |-> FALSE ],
      [ status |-> 403, limited |-> FALSE ], [ status |-> 403, limited |-> TRUE ],
      [ status |-> 404, limited |-> FALSE ] }

\* core.reset - time.time() as the gate reads it, in seconds
Deltas == { -10, 10, 4000 }

NoResp == [ status |-> 0, limited |-> FALSE ]
NoGate == [ called |-> FALSE ]
NoError == [ kind |-> "none" ]
NoParse == [ called |-> FALSE ]
NoUrl == [ kind |-> "none" ]
NoKey == << << >>, << >> >>
NotWritten == [ written |-> FALSE, repos |-> << >> ]

MetaUrl(k) == [ kind |-> "repo", key |-> k ]
PageUrl(k, n) == [ kind |-> "forks", key |-> k, page |-> n ]
RateLimitUrl == [ kind |-> "rate_limit" ]

\* body of GET /repos/{user}/{repo}/forks?page={n}
PageOf(k, n) ==
    LET l == world.listing[k]
    IN  SubSeq(l, n * PageSize + 1, Min((n + 1) * PageSize, Len(l)))

\* Fork.parse: a record is known by its identity key; its counts are the
\* ones the API holds for that key
ForksOf(f) == world.forks_count[f]
StarsOf(f) == world.stars[f]

\* requests' Response.raise_for_status: raises for 4xx and 5xx only
RaisesForStatus(s) == 400 <= s /\ s < 600

\* line 47 reading a header that is never "0"
is_rate_limited_Never(r) == FALSE

\* is_rate_limited(r)
is_rate_limited(r) == r.limited

\* range(3) of fetch
Attempts == 3

\* the cap and the padding of await_rate_limit
MaxSleep == 3600
Padding == 5

\* line 44 without the cap
SleepLength_NoCap(delta) == delta + Padding

\* the argument of time.sleep in await_rate_limit
SleepLength(delta) == Min(MaxSleep, delta + Padding)

-----------------------------------------------------------------------------
(* get_forks_recursive: what the loop body does with one record.           *)

\* lines 90-91 left out: no record is a candidate for further traversal
ShouldPush_Never(f, fetchedSet) == FALSE

\* line 90: the record is a candidate for further traversal
ShouldPush(f, fetchedSet) == ForksOf(f) # 0 /\ f \notin fetchedSet

\* line 92 without the test: every record goes to the caller
ShouldYield_Always(f, yieldedSet) == TRUE

\* line 92: the record goes to the caller
ShouldYield(f, yieldedSet) == f \notin yieldedSet

\* lines 89-94 for one record f of the enumeration; st holds the work stack,
\* the yielded set and what the caller has received
RecConsume(st, f) ==
    LET q == IF ShouldPush(f, fetched) THEN Append(st.queue, f) ELSE st.queue
    IN  IF ShouldYield(f, st.yielded)
        THEN [ queue |-> q, yielded |-> st.yielded \cup { f },
               out |-> Append(st.out, f) ]
        ELSE [ queue |-> q, yielded |-> st.yielded, out |-> st.out ]

\* lines 121-122 with a test the code does not have: a record already
\* received is dropped
DirectConsume_SkipSeen(st, f) ==
    [ queue |-> st.queue, yielded |-> st.yielded,
      out |-> IF f \in Range(st.out) THEN st.out ELSE Append(st.out, f) ]

\* lines 121-122 for one record of a direct enumeration
DirectConsume(st, f) ==
    [ queue |-> st.queue, yielded |-> st.yielded, out |-> Append(st.out, f) ]

\* the records items, in order, handed to the consumer of get_forks
RECURSIVE ConsumeAll(_, _)
ConsumeAll(st, items) ==
    IF items = << >>
    THEN st
    ELSE ConsumeAll(IF recursive THEN RecConsume(st, Head(items))
                                 ELSE DirectConsume(st, Head(items)),
                    Tail(items))

\* get_forks yields items: the consumer's state after it has taken them
Deliver(items) ==
    LET st == ConsumeAll([ queue |-> queue, yielded |-> yielded, out |-> forks ],
                         items)
    IN  /\ queue' = st.queue
        /\ yielded' = st.yielded
        /\ forks' = st.out
        /\ enumLog' = enumLog \o items

-----------------------------------------------------------------------------
(* Calls and returns.                                                      *)

\* the exception is caught in the url loop of build_config, which goes on
Raise_Caught(e) ==
    /\ pc' = "bc_loop"
    /\ error' = e

\* the run ends with exception e
Raise(e) ==
    /\ pc' = "failed"
    /\ error' = e

HTTPError(r, where) ==
    [ kind |-> "HTTPError", status |-> r.status, limited |-> r.limited,
      where |-> where ]

\* fetch(url) is called
CallFetch(url) ==
    /\ pc' = "fetch"
    /\ fetchUrl' = url
    /\ fetchI' = 0
    /\ gets' = 0
    /\ resp' = NoResp
    /\ reqLog' = Append(reqLog, url)

\* get_forks(user, repo) is called: line 63, the gate comes first
CallGetForks(k) ==
    /\ gfKey' = k
    /\ page' = 0
    /\ runs' = Append(runs, k)
    /\ reqLog' = << >>
    /\ pc' = "await"
    /\ awaitRet' = "get_forks"

\* where control goes when the generator of get_forks is exhausted
AfterEnumPc ==
    IF top = "get_forks" THEN "done"
    ELSE IF recursive THEN "rec_loop" ELSE "bc_loop"

AfterEnumIdx == IF top = "build_config" /\ ~recursive THEN urlIdx + 1 ELSE urlIdx

-----------------------------------------------------------------------------
(* await_rate_limit.                                                       *)

envVars == << top, world, urls, recursive >>
bcVars == << urlIdx, config, warnings, parsed >>
outVars == << forks, queue, yielded, enumLog >>

\* what GET /rate_limit may answer: a status, core.remaining, and
\* core.reset - time.time() at the time of the sleep
QuotaAnswers ==
    { [ status |-> 200, remaining |-> 1, delta |-> 10 ] }
        \cup { [ status |-> 200, remaining |-> 0, delta |-> d ] : d \in Deltas }
        \cup { [ status |-> s, remaining |-> 1, delta |-> 10 ] :
                   s \in Statuses \ { 200 } }

\* line 42: the gate sleeps
MustSleep(a) == a.remaining = 0

\* lines 50, 58-59: the loop of fetch after iteration i did not break:
\* the next iteration, or the else clause of the for
LoopEnd(r, i) ==
    IF i + 1 < Attempts THEN "retry"
    ELSE IF RaisesForStatus(r.status) THEN "raise" ELSE "return"

\* the code after await_rate_limit has returned to call site awaitRet
AfterAwait ==
    CASE awaitRet = "top" ->
            /\ pc' = "done"
            /\ UNCHANGED << fetchUrl, fetchI, gets, resp, page, reqLog, error >>
      [] awaitRet = "get_forks" ->
            /\ CallFetch(MetaUrl(gfKey))
            /\ UNCHANGED << page, error >>
      [] awaitRet = "page" ->
            /\ page' = page + 1
            /\ CallFetch(PageUrl(gfKey, page + 1))
            /\ UNCHANGED error
      [] awaitRet = "fetch" ->
            /\ fetchI' = fetchI + 1
            /\ UNCHANGED << fetchUrl, gets, resp, page, reqLog >>
            /\ CASE LoopEnd(resp, fetchI) = "retry" ->
                        pc' = "fetch" /\ UNCHANGED error
                 [] LoopEnd(resp, fetchI) = "raise" ->
                        Raise(HTTPError(resp, "fetch"))
                 [] LoopEnd(resp, fetchI) = "return" ->
                        pc' = (IF top = "fetch" THEN "done" ELSE "got")
                        /\ UNCHANGED error

\* lines 37-44.  gate records the call: the answer of the endpoint, whether
\* time.sleep was called (asked) and with what argument (length), and
\* whether it slept (time.sleep raises ValueError on a negative argument)
AwaitRateLimit ==
    /\ pc = "await"
    /\ quotaCalls' = quotaCalls + 1
    /\ \E a \in QuotaAnswers :
        LET failedGate == [ called |-> TRUE, status |-> a.status,
                            remaining |-> a.remaining, delta |-> a.delta,
                            asked |-> FALSE, slept |-> FALSE, length |-> 0 ]
        IN
        /\ non200' = (non200 \/ a.status # 200)
        /\ IF RaisesForStatus(a.status)
           THEN /\ Raise(HTTPError([ status |-> a.status, limited |-> FALSE ],
                                   "await_rate_limit"))
                /\ gate' = failedGate
                /\ UNCHANGED << fetchUrl, fetchI, gets, resp, page, reqLog >>
           ELSE IF a.status # 200
           THEN /\ Raise([ kind |-> "JSONError", where |-> "await_rate_limit" ])
                /\ gate' = failedGate
                /\ UNCHANGED << fetchUrl, fetchI, gets, resp, page, reqLog >>
           ELSE IF MustSleep(a) /\ SleepLength(a.delta) < 0
           THEN /\ Raise([ kind |-> "ValueError", where |-> "sleep" ])
                /\ gate' = [ failedGate EXCEPT !.asked = TRUE,
                                               !.length = SleepLength(a.delta) ]
                /\ UNCHANGED << fetchUrl, fetchI, gets, resp, page, reqLog >>
           ELSE /\ gate' = [ called |-> TRUE, status |-> a.status,
                             remaining |-> a.remaining, delta |-> a.delta,
                             asked |-> MustSleep(a), slept |-> MustSleep(a),
                             length |-> IF MustSleep(a) THEN SleepLength(a.delta)
                                                        ELSE 0 ]
                /\ AfterAwait
    /\ UNCHANGED << envVars, bcVars, outVars, fetched, gfKey, runs, awaitRet >>

-----------------------------------------------------------------------------
(* fetch.                                                                  *)

\* what the API may answer to a GET of url: a repository that does not exist
\* never answers 200
AnswersTo(url) ==
    IF url.key \in Keys THEN Responses ELSE { r \in Responses : r.status # 200 }

\* lines 52-57 without the rate-limit branch: every non-200 raises or retries
FetchStep_NoWait(r, i) ==
    IF r.status = 200 THEN "return"
    ELSE IF RaisesForStatus(r.status) THEN "raise"
    ELSE IF i + 1 < Attempts THEN "retry" ELSE "return"

\* lines 52-57: what iteration i of the loop does with response r
FetchStep(r, i) ==
    IF r.status = 200 THEN "return"
    ELSE IF r.status = 403 /\ is_rate_limited(r) THEN "await"
    ELSE IF RaisesForStatus(r.status) THEN "raise"
    ELSE LoopEnd(r, i)

\* lines 49-60: one iteration of the loop, from the GET of line 51
Fetch ==
    /\ pc = "fetch"
    /\ \E r \in AnswersTo(fetchUrl) :
        /\ gets' = gets + 1
        /\ resp' = r
        /\ non200' = (non200 \/ r.status # 200)
        /\ CASE FetchStep(r, fetchI) = "return" ->
                    /\ pc' = (IF top = "fetch" THEN "done" ELSE "got")
                    /\ fetchI' = IF r.status = 200 THEN fetchI ELSE fetchI + 1
                    /\ UNCHANGED << awaitRet, error >>
             [] FetchStep(r, fetchI) = "await" ->
                    /\ pc' = "await"
                    /\ awaitRet' = "fetch"
                    /\ UNCHANGED << fetchI, error >>
             [] FetchStep(r, fetchI) = "raise" ->
                    /\ Raise(HTTPError(r, "fetch"))
                    /\ UNCHANGED << fetchI, awaitRet >>
             [] FetchStep(r, fetchI) = "retry" ->
                    /\ pc' = "fetch"
                    /\ fetchI' = fetchI + 1
                    /\ UNCHANGED << awaitRet, error >>
    /\ gate' = NoGate
    /\ UNCHANGED quotaCalls
    /\ UNCHANGED << envVars, bcVars, outVars, fetched, gfKey, page, fetchUrl,
                    runs, reqLog >>

-----------------------------------------------------------------------------
(* get_forks.                                                              *)

\* line 68 without the test: the pages are always requested
HasForks_Always(k) == TRUE

\* line 68: j.get('forks_count') is truthy
HasForks(k) == ForksOf(k) # 0

\* line 74 as a test for a short page: the last records are never yielded
PageEnds_ShortPage(j) == Len(j) < PageSize

\* line 74: the page body is empty
PageEnds(j) == j = << >>

\* the generator of get_forks is exhausted
EndEnum ==
    /\ pc' = AfterEnumPc
    /\ urlIdx' = AfterEnumIdx
    /\ UNCHANGED << page, fetchUrl, fetchI, gets, resp, reqLog, awaitRet, error >>

\* r.json() and Fork.parse of a response that is not a 200 find no record
BadBody ==
    /\ Raise([ kind |-> "JSONError", where |-> "get_forks" ])
    /\ UNCHANGED << outVars, urlIdx, page, fetchUrl, fetchI, gets, resp, reqLog,
                    awaitRet >>

\* lines 65-69: the self record, and the first page request if it has forks
GetForksSelf ==
    /\ pc = "got"
    /\ fetchUrl.kind = "repo"
    /\ IF resp.status # 200
       THEN BadBody
       ELSE /\ Deliver(<< gfKey >>)
            /\ IF HasForks(gfKey)
               THEN /\ page' = 0
                    /\ CallFetch(PageUrl(gfKey, 0))
                    /\ UNCHANGED << urlIdx, awaitRet, error >>
               ELSE EndEnum
    /\ gate' = NoGate
    /\ UNCHANGED quotaCalls
    /\ UNCHANGED non200
    /\ UNCHANGED << envVars, config, warnings, parsed, fetched, gfKey, runs >>

\* lines 73-79 and back to line 72: the records of one page, then the gate
\* or the next page request
GetForksPage ==
    /\ pc = "got"
    /\ fetchUrl.kind = "forks"
    /\ IF resp.status # 200
       THEN BadBody
       ELSE LET j == PageOf(gfKey, page)
            IN  IF PageEnds(j)
                THEN EndEnum /\ UNCHANGED outVars
                ELSE /\ Deliver(j)
                     /\ IF is_rate_limited(resp)
                        THEN /\ pc' = "await"
                             /\ awaitRet' = "page"
                             /\ UNCHANGED << page, fetchUrl, fetchI, gets, resp,
                                             reqLog, urlIdx, error >>
                        ELSE /\ page' = page + 1
                             /\ CallFetch(PageUrl(gfKey, page + 1))
                             /\ UNCHANGED << urlIdx, awaitRet, error >>
    /\ gate' = NoGate
    /\ UNCHANGED quotaCalls
    /\ UNCHANGED non200
    /\ UNCHANGED << envVars, config, warnings, parsed, fetched, gfKey, runs >>

-----------------------------------------------------------------------------
(* get_forks_recursive.                                                    *)

\* lines 85-88: the loop test, the pop, and the call of get_forks
GetForksRecursiveLoop ==
    /\ pc = "rec_loop"
    /\ IF queue = << >>
       THEN /\ pc' = IF top = "build_config" THEN "bc_loop" ELSE "done"
            /\ urlIdx' = IF top = "build_config" THEN urlIdx + 1 ELSE urlIdx
            /\ UNCHANGED << queue, fetched, gfKey, page, runs, reqLog, awaitRet >>
       ELSE LET k == queue[Len(queue)]
            IN  /\ queue' = SubSeq(queue, 1, Len(queue) - 1)
                /\ fetched' = fetched \cup { k }
                /\ CallGetForks(k)
                /\ UNCHANGED urlIdx
    /\ gate' = NoGate
    /\ quotaCalls' = IF queue = << >> THEN quotaCalls ELSE 0
    /\ UNCHANGED non200
    /\ UNCHANGED << envVars, config, warnings, parsed, forks, yielded, enumLog,
                    fetchUrl, fetchI, gets, resp, error >>

-----------------------------------------------------------------------------
(* build_config.                                                           *)

\* list.sort(key=stars, reverse=True): the sort is stable, and with reverse
\* records of equal stars keep their order.  x goes behind every record of
\* at least its stars.
\* the insertion with > for >=: records of equal stars change places
RECURSIVE InsertDesc_BeforeEquals(_, _)
InsertDesc_BeforeEquals(x, s) ==
    IF s = << >> THEN << x >>
    ELSE IF StarsOf(Head(s)) > StarsOf(x)
         THEN << Head(s) >> \o InsertDesc_BeforeEquals(x, Tail(s))
         ELSE << x >> \o s

RECURSIVE InsertDesc(_, _)
InsertDesc(x, s) ==
    IF s = << >> THEN << x >>
    ELSE IF StarsOf(Head(s)) >= StarsOf(x)
         THEN << Head(s) >> \o InsertDesc(x, Tail(s))
         ELSE << x >> \o s

RECURSIVE SortByStars(_)
SortByStars(fs) ==
    IF fs = << >> THEN << >>
    ELSE InsertDesc(fs[Len(fs)], SortByStars(SubSeq(fs, 1, Len(fs) - 1)))

\* lines 133-141: the entry of one record
Entry(f) == [ path |-> f, name |-> f, revisions |-> << "HEAD" >> ]

\* lines 113-120: one url of args.urls, up to the first request for it
BuildConfigLoop ==
    /\ pc = "bc_loop"
    /\ urlIdx <= Len(urls)
    /\ LET url == urls[urlIdx]
           r   == parse_url(url)
           k   == << r.user, r.repo >>
       IN  /\ parsed' = [ called |-> TRUE, url |-> url, outcome |-> r.outcome,
                          user |-> r.user, repo |-> r.repo ]
           /\ warnings' = IF r.outcome = "skip" THEN warnings + 1 ELSE warnings
           /\ IF r.outcome = "raise"
              THEN /\ Raise([ kind |-> "ValueError", where |-> "parse_url" ])
                   /\ UNCHANGED << urlIdx, queue, fetched, yielded, gfKey, page,
                                   runs, enumLog, reqLog, awaitRet, quotaCalls >>
              ELSE IF r.repo = << >>
              THEN /\ urlIdx' = urlIdx + 1
                   /\ UNCHANGED << pc, error, queue, fetched, yielded, gfKey,
                                   page, runs, enumLog, reqLog, awaitRet,
                                   quotaCalls >>
              ELSE IF recursive
              THEN /\ queue' = << k >>
                   /\ fetched' = { }
                   /\ yielded' = { }
                   /\ runs' = << >>
                   /\ enumLog' = << >>
                   /\ pc' = "rec_loop"
                   /\ UNCHANGED << urlIdx, error, gfKey, page, reqLog, awaitRet,
                                   quotaCalls >>
              ELSE /\ gfKey' = k
                   /\ page' = 0
                   /\ runs' = << k >>
                   /\ enumLog' = << >>
                   /\ reqLog' = << >>
                   /\ quotaCalls' = 0
                   /\ pc' = "await"
                   /\ awaitRet' = "get_forks"
                   /\ UNCHANGED << urlIdx, error, queue, fetched, yielded >>
    /\ gate' = NoGate
    /\ UNCHANGED non200
    /\ UNCHANGED << envVars, forks, config, fetchUrl, fetchI, gets, resp >>

\* lines 125-143: sort, build the entries, write livegrep.json.  forks is
\* local and not read after the sort: the model keeps it in collection order
\* and puts the sorted list into config.
BuildConfigWrite ==
    /\ pc = "bc_loop"
    /\ urlIdx > Len(urls)
    /\ config' = [ written |-> TRUE,
                   repos |-> [ i \in 1..Len(forks) |-> Entry(SortByStars(forks)[i]) ] ]
    /\ pc' = "done"
    /\ gate' = NoGate
    /\ UNCHANGED quotaCalls
    /\ UNCHANGED non200
    /\ UNCHANGED << envVars, forks, urlIdx, warnings, parsed, queue, fetched, yielded,
                    gfKey, page, fetchUrl, fetchI, gets, resp, awaitRet, error,
                    runs, enumLog, reqLog >>

\* a call of parse_url on its own
ParseUrl ==
    /\ pc = "parse_url"
    /\ LET r == parse_url(urls[1])
       IN  /\ parsed' = [ called |-> TRUE, url |-> urls[1], outcome |-> r.outcome,
                          user |-> r.user, repo |-> r.repo ]
           /\ warnings' = IF r.outcome = "skip" THEN warnings + 1 ELSE warnings
           /\ IF r.outcome = "raise"
              THEN Raise([ kind |-> "ValueError", where |-> "parse_url" ])
              ELSE pc' = "done" /\ UNCHANGED error
    /\ gate' = NoGate
    /\ UNCHANGED quotaCalls
    /\ UNCHANGED non200
    /\ UNCHANGED << envVars, urlIdx, forks, config, queue, fetched, yielded,
                    gfKey, page, fetchUrl, fetchI, gets, resp, awaitRet, runs,
                    enumLog, reqLog >>

-----------------------------------------------------------------------------
(* Inputs.                                                                 *)

\* fork listings of the three repositories with at most n entries together
Listings(n) ==
    UNION { UNION { { (KA :> la @@ KB :> lb @@ KC :> lc) :
                          lc \in SeqsUpTo(Keys, n - Len(la) - Len(lb)) } :
                    lb \in SeqsUpTo(Keys, n - Len(la)) } :
            la \in SeqsUpTo(Keys, n) }

NoStars == [ k \in Keys |-> 0 ]

\* forks_count of a record: none, or some
ForkCounts == { 0, 2 }

\* worlds whose records differ in fork counts and listings only
GraphWorlds ==
    { [ forks_count |-> fc, stars |-> NoStars, listing |-> l ] :
          fc \in [ Keys -> ForkCounts ], l \in Listings(MaxEdges) }

\* worlds of one get_forks call, which reads the fork count and the listing
\* of the repository it enumerates and of no other
EnumWorlds ==
    { w \in GraphWorlds :
          \A k \in Keys \ { KA } : w.forks_count[k] = 0 /\ w.listing[k] = << >> }

\* a world with no forks at all
BareWorld ==
    [ forks_count |-> [ k \in Keys |-> 0 ], stars |-> NoStars,
      listing |-> [ k \in Keys |-> << >> ] ]

\* input urls: an optional scheme, an optional host, a path
Schemes == { << >>, HttpsPrefix }
Hosts == { << >>, GithubHost, Str("gitlab.com") }
PathAtoms == { "/", "octocat", "Hello-World" }

InputUrls ==
    { s \o h \o p : s \in Schemes, h \in Hosts,
                    p \in SeqsUpTo(PathAtoms, MaxPathLen) }

UrlOf(k) == HttpsPrefix \o GithubHost \o << "/" >> \o k[1] \o << "/" >> \o k[2]
BareUrlOf(k) == k[1] \o << "/" >> \o k[2]
NoSchemeUrlOf(k) == GithubHost \o << "/" >> \o k[1] \o << "/" >> \o k[2]
OtherHostUrl ==
    HttpsPrefix \o Str("gitlab.com") \o << "/", "foo", "/", "bar" >>
OwnerOnlyUrl == HttpsPrefix \o GithubHost \o << "/", "octocat" >>

-----------------------------------------------------------------------------
(* Specifications: one per entry point.                                    *)

\* parts of the state before the code that owns them has run
IdleArgs == urls = << >> /\ recursive = FALSE
IdleBuildConfig ==
    urlIdx = 1 /\ config = NotWritten /\ warnings = 0 /\ parsed = NoParse
IdleTraversal == queue = << >> /\ fetched = { } /\ yielded = { }
IdleGetForks ==
    gfKey = NoKey /\ page = 0 /\ runs = << >> /\ reqLog = << >> /\ quotaCalls = 0
IdleFetch == fetchUrl = NoUrl /\ fetchI = 0 /\ gets = 0 /\ resp = NoResp
NothingYet ==
    /\ forks = << >> /\ enumLog = << >> /\ non200 = FALSE
    /\ gate = NoGate /\ error = NoError

\* fetch(url)
InitFetch ==
    /\ top = "fetch"
    /\ pc = "fetch"
    /\ world = BareWorld
    /\ IdleArgs /\ IdleBuildConfig /\ IdleTraversal /\ NothingYet
    /\ gfKey = NoKey /\ page = 0 /\ runs = << >> /\ quotaCalls = 0
    /\ fetchUrl \in { MetaUrl(KA), PageUrl(KA, 0),
                      MetaUrl(<< Str("octocat"), Str("octocat") >>) }
    /\ reqLog = << fetchUrl >>
    /\ fetchI = 0 /\ gets = 0 /\ resp = NoResp
    /\ awaitRet = "top"

NextFetch == Fetch \/ AwaitRateLimit

SpecFetch == InitFetch /\ [][NextFetch]_vars

\* get_forks("octocat", "Hello-World")
InitEnum ==
    /\ top = "get_forks"
    /\ pc = "await"
    /\ awaitRet = "get_forks"
    /\ world \in EnumWorlds
    /\ IdleArgs /\ IdleBuildConfig /\ IdleTraversal /\ IdleFetch /\ NothingYet
    /\ gfKey = KA /\ page = 0 /\ runs = << KA >> /\ reqLog = << >>
    /\ quotaCalls = 0

NextEnum == AwaitRateLimit \/ Fetch \/ GetForksSelf \/ GetForksPage

SpecEnum == InitEnum /\ [][NextEnum]_vars

\* get_forks_recursive("octocat", "Hello-World")
InitTrav ==
    /\ top = "get_forks_recursive"
    /\ pc = "rec_loop"
    /\ awaitRet = "top"
    /\ world \in GraphWorlds
    /\ urls = << >> /\ recursive = TRUE
    /\ IdleBuildConfig /\ IdleGetForks /\ IdleFetch /\ NothingYet
    /\ queue = << KA >> /\ fetched = { } /\ yielded = { }

NextTrav ==
    \/ GetForksRecursiveLoop
    \/ AwaitRateLimit
    \/ Fetch
    \/ GetForksSelf
    \/ GetForksPage

SpecTrav == InitTrav /\ [][NextTrav]_vars

\* the traversal is one thread that runs until it returns or raises
SpecTravFair == SpecTrav /\ WF_vars(NextTrav)

\* parse_url(url)
InitParse ==
    /\ top = "parse_url"
    /\ pc = "parse_url"
    /\ awaitRet = "top"
    /\ world = BareWorld
    /\ urls \in { << u >> : u \in InputUrls }
    /\ recursive = FALSE
    /\ IdleBuildConfig /\ IdleTraversal /\ IdleGetForks /\ IdleFetch /\ NothingYet

NextParse == ParseUrl

SpecParse == InitParse /\ [][NextParse]_vars

\* worlds of a build_config run: fork counts agree with the listings, one
\* fork at most, and the stars are all equal or rise from the first
\* repository to the two others
ConfigWorlds ==
    { [ forks_count |-> [ k \in Keys |-> IF l[k] = << >> THEN 0 ELSE 2 ],
        stars |-> st, listing |-> l ] :
          l \in Listings(1),
          st \in { NoStars, (KA :> 0 @@ KB :> 1 @@ KC :> 1) } }

\* the input urls of a build_config run
ConfigUrls == { UrlOf(KA), UrlOf(KB), BareUrlOf(KA), OtherHostUrl, OwnerOnlyUrl }

\* build_config(args)
Init ==
    /\ top = "build_config"
    /\ pc = "bc_loop"
    /\ awaitRet = "top"
    /\ world \in ConfigWorlds
    /\ urls \in SeqsUpTo(ConfigUrls, MaxUrls) \ { << >> }
    /\ recursive \in BOOLEAN
    /\ IdleBuildConfig /\ IdleTraversal /\ IdleGetForks /\ IdleFetch /\ NothingYet

Next ==
    \/ BuildConfigLoop
    \/ BuildConfigWrite
    \/ GetForksRecursiveLoop
    \/ AwaitRateLimit
    \/ Fetch
    \/ GetForksSelf
    \/ GetForksPage

Spec == Init /\ [][Next]_vars

\* build_config at line 125, with any list of collected records
InitSort ==
    /\ top = "build_config"
    /\ pc = "bc_loop"
    /\ awaitRet = "top"
    /\ \E st \in [ Keys -> 0..MaxStars ] :
           world = [ forks_count |-> [ k \in Keys |-> 0 ], stars |-> st,
                     listing |-> [ k \in Keys |-> << >> ] ]
    /\ urls = << UrlOf(KA) >>
    /\ urlIdx = 2
    /\ recursive = FALSE
    /\ forks \in SeqsUpTo(Keys, MaxRecords)
    /\ config = NotWritten /\ warnings = 0 /\ parsed = NoParse
    /\ enumLog = << >> /\ non200 = FALSE /\ gate = NoGate /\ error = NoError
    /\ IdleTraversal /\ IdleGetForks /\ IdleFetch

NextSort == BuildConfigWrite

SpecSort == InitSort /\ [][NextSort]_vars

-----------------------------------------------------------------------------
(* Helpers of the properties.                                              *)

Count(s, x) == Cardinality({ i \in 1..Len(s) : s[i] = x })

NoDup(s) == \A i, j \in 1..Len(s) : i # j => s[i] # s[j]

\* s without the later occurrences of its elements
RECURSIVE FirstOccurrences(_)
FirstOccurrences(s) ==
    IF s = << >> THEN << >>
    ELSE LET init == SubSeq(s, 1, Len(s) - 1)
             x    == s[Len(s)]
         IN  IF x \in Range(init) THEN FirstOccurrences(init)
             ELSE Append(FirstOccurrences(init), x)

\* the keys reachable from the keys S through the fork listings
RECURSIVE Closure(_)
Closure(S) ==
    LET N == S \cup UNION { Range(world.listing[k]) : k \in S }
    IN  IF N = S THEN S ELSE Closure(N)

\* a record's fork count is nonzero exactly when its listing is not empty
ConsistentCounts ==
    \A k \in Keys : (world.forks_count[k] # 0) <=> (world.listing[k] # << >>)

-----------------------------------------------------------------------------
(* Properties of get_forks_recursive, under SpecTrav.                      *)

\* C1: in one call of get_forks_recursive no identity key is yielded twice:
\* what the caller has received is the enumeration so far with every later
\* occurrence of a key left out, so each key is yielded where it first occurs.
C1_YieldedOnce ==
    /\ NoDup(forks)
    /\ forks = FirstOccurrences(enumLog)
    /\ yielded = Range(forks)

\* C1 witness: a finished traversal in which one repository was enumerated
\* from two different parents and yielded once
C1_Witness ==
    /\ pc = "done"
    /\ Count(enumLog, KC) >= 2
    /\ KC \in Range(world.listing[KA])
    /\ KC \in Range(world.listing[KB])
    /\ Count(forks, KC) = 1
    /\ Len(forks) = 3

\* C2: with fork counts that agree with the listings, a traversal that has
\* run to completion has yielded every repository reachable from the seed.
C2_AllReachableYielded ==
    (pc = "done" /\ ConsistentCounts) => Closure({ KA }) \subseteq Range(forks)

\* C2 witness: a finished traversal of a chain: the third repository is
\* reachable only through the second
C2_Witness ==
    /\ pc = "done"
    /\ ConsistentCounts
    /\ world.listing[KA] = << KB >>
    /\ world.listing[KB] = << KC >>
    /\ Range(forks) = Keys

\* C4: in one traversal get_forks runs at most once per identity key.
C4_FetchedOnce == \A k \in Keys : Count(runs, k) <= 1

\* C3: when every request is answered with a 200 the traversal terminates:
\* its work stack becomes empty and the generator returns.  Checked under
\* SpecTravFair.
C3_StackEventuallyEmpty == <>(non200 \/ (pc = "done" /\ queue = << >>))

\* what does hold of termination: the run ends, and when every request was
\* answered with a 200 it ends with the stack empty unless the gate was
\* asked to sleep a negative time
TravEnds == <>(pc = "done" \/ pc = "failed")
TravEndsEmptyUnlessGateRaises ==
    (pc = "failed" /\ ~non200) =>
        (error.kind = "ValueError" /\ error.where = "sleep")

-----------------------------------------------------------------------------
(* Properties of fetch, under SpecFetch.                                   *)

RateLimited403(r) == r.status = 403 /\ r.limited

\* C5: a call of fetch issues at most 3 GETs, every response it returns is a
\* 200, and a failure of fetch carries the status of the last response.
C5_ReturnsOnly200 ==
    /\ gets <= Attempts
    /\ pc = "done" => resp.status = 200
    /\ (pc = "failed" /\ error.kind = "HTTPError" /\ error.where = "fetch")
           => error.status = resp.status

\* C6 as stated: a rate-limited 403 never reaches the caller of fetch as an
\* error.
C6_RateLimitNeverSurfaced ==
    ~(pc = "failed" /\ error.kind = "HTTPError" /\ error.where = "fetch"
        /\ RateLimited403(error))

\* C6 as amended: a rate-limited 403 on the first or the second attempt is
\* followed by the gate and, when the gate returns, by the next GET; only
\* the rate-limited 403 of the third attempt is raised to the caller, and
\* that after the gate has been called for it too.
C6_SurfacedOnLastAttemptOnly ==
    /\ (pc = "failed" /\ error.kind = "HTTPError" /\ error.where = "fetch"
          /\ RateLimited403(error))
           => (gets = Attempts /\ fetchI = Attempts /\ RateLimited403(resp))
    /\ (RateLimited403(resp) /\ gets < Attempts)
           => \/ pc = "await" /\ awaitRet = "fetch"
              \/ pc = "fetch" /\ fetchI = gets
              \/ pc = "failed" /\ error.where \in { "await_rate_limit", "sleep" }
    /\ (RateLimited403(resp) /\ gets = Attempts)
           => \/ pc = "await" /\ awaitRet = "fetch"
              \/ pc = "failed"

\* C6 witness: two rate-limited 403s were waited out, the second by a
\* sleep, and the third GET is about to be issued
C6_Witness ==
    /\ pc = "fetch"
    /\ RateLimited403(resp)
    /\ gets = 2
    /\ gate.called /\ gate.slept

-----------------------------------------------------------------------------
(* Properties of parse_url, under SpecParse.                               *)

\* the atoms of url before its first "/"
FirstPart(url) == SubSeq(url, 1, FindSlashFrom(url, 1) - 1)

Words == { "octocat", "Hello-World" }

-----------------------------------------------------------------------------
(* Properties of build_config, under Spec.                                 *)

\* the host parse_url finds in url
HostOf(url) == UrlParse(IF HasSchemeSep(url) THEN url ELSE HttpsPrefix \o url).netloc

UnknownHosts == { i \in 1..Len(urls) : HostOf(urls[i]) # GithubHost }

\* C8: an input url of another host is skipped with one warning and nothing
\* else: the step that meets it issues no request, raises nothing, collects
\* nothing and leaves the loop at the next url; and a run that ends
\* normally has written the config after it went through every url, with one
\* warning per such url.
C8_UnknownHostSkipped ==
    /\ [][ (pc = "bc_loop" /\ urlIdx \in UnknownHosts)
              => /\ pc' = "bc_loop"
                 /\ urlIdx' = urlIdx + 1
                 /\ warnings' = warnings + 1
                 /\ error' = NoError
                 /\ UNCHANGED << forks, config, reqLog, gets, fetchUrl, runs >> ]_vars
    /\ [](pc = "done" => /\ config.written
                         /\ urlIdx = Len(urls) + 1
                         /\ warnings = Cardinality(UnknownHosts))

\* C8 witness: the config is written after a run whose first url was of
\* another host and whose second url was enumerated
C8_Witness ==
    /\ pc = "done"
    /\ config.written
    /\ urls = << OtherHostUrl, UrlOf(KA) >>
    /\ warnings = 1
    /\ Len(forks) >= 1

-----------------------------------------------------------------------------
(* Properties of get_forks, under SpecEnum.                                *)

IsPrefix(s, t) == Len(s) <= Len(t) /\ s = SubSeq(t, 1, Len(s))

\* the number of the first empty page of the fork listing of k
FirstEmptyPage(k) ==
    CHOOSE n \in 0..Len(world.listing[k]) :
        /\ PageOf(k, n) = << >>
        /\ \A m \in 0..(n - 1) : PageOf(k, m) # << >>

\* the self record, then the elements of the pages before the first empty one
ExpectedYield(k) ==
    << k >> \o Flatten([ n \in 1..FirstEmptyPage(k) |-> PageOf(k, n - 1) ])

\* the repository request, then one request per page up to the first empty one
ExpectedRequests(k) ==
    << MetaUrl(k) >> \o [ n \in 1..(FirstEmptyPage(k) + 1) |-> PageUrl(k, n - 1) ]

RequestedPages ==
    { reqLog[i].page : i \in { j \in 1..Len(reqLog) : reqLog[j].kind = "forks" } }

-----------------------------------------------------------------------------
(* Properties of the emitter, under SpecSort.                              *)

Names(repos) == [ i \in 1..Len(repos) |-> repos[i].name ]

\* the records of s with v stars, in the order of s
WithStars(s, v) ==
    LET Test(x) == StarsOf(x) = v
    IN  SelectSeq(s, Test)

\* C10: the repos list written is a permutation of the collected records, in
\* non-increasing order of stars, and records of equal stars are in
\* collection order.
C10_SortedStablePermutation ==
    config.written =>
        LET r == Names(config.repos)
        IN  /\ Len(r) = Len(forks)
            /\ \A k \in Keys : Count(r, k) = Count(forks, k)
            /\ \A i, j \in 1..Len(r) : i < j => StarsOf(r[i]) >= StarsOf(r[j])
            /\ \A k \in Keys :
                   WithStars(r, StarsOf(k)) = WithStars(forks, StarsOf(k))
            /\ \A i \in 1..Len(r) : config.repos[i].revisions = << "HEAD" >>

\* C10 witness: three records, the second with more stars than the two
\* others, which have the same: the second is written first and the two
\* others keep their order
C10_Witness ==
    /\ config.written
    /\ forks = << KC, KB, KA >>
    /\ StarsOf(KA) = StarsOf(KC)
    /\ StarsOf(KB) > StarsOf(KA)
    /\ Names(config.repos) = << KB, KC, KA >>

-----------------------------------------------------------------------------
(* Properties of await_rate_limit, under SpecEnum.                         *)

\* C11: the gate calls time.sleep only when the endpoint reported
\* remaining = 0, and then with min(3600, reset - now + 5), which is never
\* more than 3600 (15 for a reset 10 seconds ahead); with a nonzero
\* remaining it returns without a sleep.
C11_SleepsOnlyAtZeroCapped ==
    gate.called =>
        /\ gate.asked <=> (gate.status = 200 /\ gate.remaining = 0)
        /\ gate.slept => gate.asked
        /\ gate.asked =>
               /\ gate.length = (IF gate.delta + 5 < 3600 THEN gate.delta + 5
                                                         ELSE 3600)
               /\ gate.length <= 3600
               /\ gate.delta = 10 => gate.length = 15
        /\ (gate.status = 200 /\ gate.remaining # 0) =>
               (~gate.slept /\ gate.length = 0)

\* C11 witness: the gate has slept the full hour for a reset further away
C11_Witness ==
    /\ gate.called
    /\ gate.slept
    /\ gate.delta > 3600
    /\ gate.length = 3600

-----------------------------------------------------------------------------
(* Properties of build_config, under Spec, continued.                      *)

\* C12: in recursive mode the records collected for the config hold no
\* repository identity twice, and the written config has no two entries of
\* one name.
C12_CollectedOnce ==
    recursive =>
        /\ NoDup(forks)
        /\ config.written => NoDup(Names(config.repos))

-----------------------------------------------------------------------------
(* Properties of fetch, under SpecFetch, continued.                        *)

\* C13: a response that is neither a 200 nor a rate-limited 403 ends the
\* call of fetch at once with the HTTP error of that response: no GET and no
\* gate call follows it.
C13_OtherStatusFailsAtOnce ==
    (resp # NoResp /\ resp.status # 200 /\ ~RateLimited403(resp)) =>
        /\ pc = "failed"
        /\ error.kind = "HTTPError"
        /\ error.where = "fetch"
        /\ error.status = resp.status

-----------------------------------------------------------------------------
(* Properties of get_forks, under SpecEnum, continued.                     *)

\* the forks one enumeration has yielded: all but the self record
YieldedForks == IF forks = << >> THEN << >> ELSE Tail(forks)

\* C14 as stated: one enumeration yields no fork identity twice, whatever
\* the pages hold.
C14_NoForkTwice == NoDup(YieldedForks)

\* C14 as amended: get_forks yields a fork once for each time the pages
\* name it: at the end of an enumeration of a repository with a nonzero fork
\* count every identity has been yielded as often as it occurs on the
\* non-empty pages, never more at any time, so the forks are without
\* duplicates exactly when the pages are.
C14_YieldedAsOftenAsListed ==
    LET listed == Tail(ExpectedYield(KA))
    IN  /\ \A k \in Keys : Count(YieldedForks, k) <= Count(listed, k)
        /\ (pc = "done" /\ world.forks_count[KA] # 0) =>
               /\ \A k \in Keys : Count(YieldedForks, k) = Count(listed, k)
               /\ NoDup(YieldedForks) <=> NoDup(listed)

\* C14 witness: a finished enumeration of two pages that both name one fork
C14_Witness ==
    /\ pc = "done"
    /\ world.listing[KA] = << KB, KC, KB >>
    /\ PageOf(KA, 0) = << KB, KC >>
    /\ forks = << KA, KB, KC, KB >>


\* C15 as stated: an enumeration of a repository with a fork count of zero
\* yields the self record alone and requests no page; its only requests are
\* one GET of /rate_limit and the metadata fetch.
C15_OneQuotaCallOneFetch ==
    (pc = "done" /\ world.forks_count[KA] = 0) =>
        /\ forks = << KA >>
        /\ reqLog = << MetaUrl(KA) >>
        /\ quotaCalls = 1

\* C15 as amended: with a fork count of zero the enumeration yields the self
\* record alone and never requests a page; fetch is called once, for the
\* metadata, and issues one to three GETs; /rate_limit is requested once at
\* the start and at most once more for each GET that was retried; when every
\* answer is a 200 that makes one request of each.
C15_NoPageAtZeroForks ==
    world.forks_count[KA] = 0 =>
        /\ RequestedPages = { }
        /\ IsPrefix(forks, << KA >>)
        /\ pc = "done" =>
               /\ forks = << KA >>
               /\ reqLog = << MetaUrl(KA) >>
               /\ gets \in 1..Attempts
               /\ quotaCalls \in 1..gets
               /\ ~non200 => (gets = 1 /\ quotaCalls = 1)

\* C15 witness: a finished enumeration of a repository with a fork count of
\* zero and a fork listing that is not empty, after one rate-limited 403
C15_Witness ==
    /\ pc = "done"
    /\ world.forks_count[KA] = 0
    /\ world.listing[KA] # << >>
    /\ forks = << KA >>
    /\ gets = 2
    /\ quotaCalls = 2

-----------------------------------------------------------------------------
(* Properties of build_config, under Spec, continued.                      *)

\* C16: an HTTP error raised during a traversal ends the run of
\* build_config there: livegrep.json is not written, then or later, the url
\* loop stays at the url that failed, and no step follows, whatever has been
\* collected.
C16_FailureAbortsRun ==
    /\ [](error.kind = "HTTPError" =>
              /\ pc = "failed"
              /\ config = NotWritten
              /\ urlIdx <= Len(urls)
              /\ parsed.url = urls[urlIdx])
    /\ [][error.kind = "HTTPError" => UNCHANGED vars]_vars

\* C16 witness: the fork page of the first of two urls answered 404 after
\* the self record had been collected
C16_Witness ==
    /\ pc = "failed"
    /\ error.kind = "HTTPError"
    /\ error.status = 404
    /\ fetchUrl.kind = "forks"
    /\ forks # << >>
    /\ urlIdx = 1
    /\ Len(urls) = 2
    /\ config = NotWritten

-----------------------------------------------------------------------------
(* Properties of get_forks, under SpecEnum, continued.                     *)

\* get_forks holds the 200 response of a fork page that is not empty
AtFullPage ==
    /\ pc = "got"
    /\ fetchUrl.kind = "forks"
    /\ resp.status = 200
    /\ PageOf(gfKey, page) # << >>

\* C17: get_forks requests /rate_limit before its first call of fetch; after
\* a page that is not empty and whose response signals zero quota it calls
\* the gate, which requests /rate_limit before the next page is requested;
\* after a page that is not empty and does not signal it, the next page is
\* requested at once, with no request of /rate_limit.
C17_GateBeforeFirstAndAfterLimitedPage ==
    /\ [](reqLog # << >> => quotaCalls >= 1)
    /\ [][ (reqLog = << >> /\ reqLog' # << >>) =>
               /\ pc = "await" /\ awaitRet = "get_forks"
               /\ quotaCalls = 0 /\ quotaCalls' = 1
               /\ reqLog' = << MetaUrl(gfKey) >> ]_vars
    /\ [][ (AtFullPage /\ resp.limited) =>
               /\ pc' = "await" /\ awaitRet' = "page"
               /\ UNCHANGED << reqLog, quotaCalls, page >> ]_vars
    /\ [][ (pc = "await" /\ awaitRet = "page") =>
               /\ quotaCalls' = quotaCalls + 1
               /\ \/ pc' = "failed" /\ UNCHANGED reqLog
                  \/ /\ pc' = "fetch"
                     /\ page' = page + 1
                     /\ reqLog' = Append(reqLog, PageUrl(gfKey, page + 1)) ]_vars
    /\ [][ (AtFullPage /\ ~resp.limited) =>
               /\ pc' = "fetch"
               /\ page' = page + 1
               /\ reqLog' = Append(reqLog, PageUrl(gfKey, page + 1))
               /\ UNCHANGED quotaCalls ]_vars

\* C17 witness: the gate has returned after the first page, which signalled
\* zero quota, and the second page is about to be requested
C17_Witness ==
    /\ pc = "fetch"
    /\ fetchUrl = PageUrl(KA, 1)
    /\ gets = 0
    /\ awaitRet = "page"
    /\ gate.called
    /\ quotaCalls = 2

-----------------------------------------------------------------------------
(* Properties of build_config, under Spec, continued.                      *)

\* the parts of the path parse_url finds in url
PathParts(url) ==
    Split(Strip(UrlParse(IF HasSchemeSep(url) THEN url
                                              ELSE HttpsPrefix \o url).path))

\* C18: a github.com url with fewer than two path parts is skipped like a
\* url of another host: parse_url returns (None, None) for it with the
\* warning, nothing is raised, and build_config goes on to the next url.
C18_NoRepoUrlSkipped ==
    (parsed.called /\ HostOf(parsed.url) = GithubHost
                   /\ Len(PathParts(parsed.url)) < 2)
        => /\ parsed.outcome = "skip"
           /\ pc # "failed"
           /\ error = NoError
           /\ warnings >= 1

-----------------------------------------------------------------------------
(* Properties of await_rate_limit, under SpecEnum, continued.              *)

\* C19: the argument the gate calls time.sleep with is in 0..3600, and the
\* call sleeps, whatever reset time the endpoint reports with remaining = 0.
C19_SleepArgumentInRange ==
    (gate.called /\ gate.asked) =>
        /\ 0 <= gate.length
        /\ gate.length <= 3600
        /\ gate.slept

=============================================================================
